---- MODULE Spec2Model ----
(***************************************************************************)
(* A model of the recursive-descent JSON parser of src/src/lib.rs.         *)
(*                                                                         *)
(* Text (&str) is a sequence of one-character strings, e.g.                *)
(* <<"[", "1", "]">>; all modelled characters are ASCII, so a character is *)
(* a byte.  A Rust Option is a sequence of length 0 (None) or 1 (Some(x)). *)
(* A recognizer result, ElementParseOption<T> = Option<(T, Option<&str>)>, *)
(* is None or Some(<<t, remaining>>).  Positions are 0-based, as in the    *)
(* source.                                                                 *)
(***************************************************************************)
EXTENDS Integers, Sequences, FiniteSets, TLC

VARIABLES
    gen,    \* the parameters the input text was built from (<<>> for raw text)
    src,    \* the text handed to the recognizer under call
    out,    \* the result of the last call (None before the first call)
    vals,   \* the values a caller has collected from successive calls
    pc      \* "call": about to call; "ret": the call has returned; "end": the caller stopped

vars == <<gen, src, out, vals, pc>>

---------------------------------------------------------------------------
(* Option<T> *)

None == <<>>

Some(x) == <<x>>

IsSome(o) == Len(o) = 1

Unwrap(o) == o[1]

---------------------------------------------------------------------------
(* Characters and str primitives of the standard library, as the code uses *)
(* them.                                                                   *)

\* char::is_ascii_digit
Digits == {"0", "1", "2", "3", "4", "5", "6", "7", "8", "9"}

\* char::is_whitespace restricted to ASCII: U+0009..U+000D and U+0020
WhiteSpace == {" ", "\t", "\n", "\r", "\f"}

\* The byte value of a character, for the characters the inputs are built from.
Byte(c) ==
    CASE c = "\t" -> 9
      [] c = "\n" -> 10
      [] c = "\f" -> 12
      [] c = "\r" -> 13
      [] c = " "  -> 32
      [] c = "\"" -> 34
      [] c = "+"  -> 43
      [] c = ","  -> 44
      [] c = "-"  -> 45
      [] c = "."  -> 46
      [] c \in Digits -> 48 + (CHOOSE d \in 0..9 : <<"0", "1", "2", "3", "4", "5", "6", "7", "8", "9">>[d + 1] = c)
      [] c = ":"  -> 58
      [] c = "E"  -> 69
      [] c = "["  -> 91
      [] c = "\\" -> 92
      [] c = "]"  -> 93
      [] c = "{"  -> 123
      [] c = "}"  -> 125
      [] OTHER    -> 97    \* a lower-case letter; only the range matters

\* &s[from..] with a 0-based byte offset
From(s, from) == SubSeq(s, from + 1, Len(s))

\* &s[..to]
Upto(s, to) == SubSeq(s, 1, to)

\* str::starts_with
starts_with(s, p) == Len(s) >= Len(p) /\ SubSeq(s, 1, Len(p)) = p

\* str::trim_start
RECURSIVE trim_start(_)
trim_start(s) ==
    IF s # <<>> /\ Head(s) \in WhiteSpace THEN trim_start(Tail(s)) ELSE s

\* str::trim_end
RECURSIVE trim_end(_)
trim_end(s) ==
    IF s # <<>> /\ s[Len(s)] \in WhiteSpace THEN trim_end(SubSeq(s, 1, Len(s) - 1)) ELSE s

\* str::trim
trim(s) == trim_end(trim_start(s))

\* <[u8]>::get
get(bytes, pos) == IF pos < Len(bytes) THEN Some(bytes[pos + 1]) ELSE None

\* the code's `match x { x if x.is_empty() => None, x => Some(x) }`
NonEmpty(x) == IF x = <<>> THEN None ELSE Some(x)

---------------------------------------------------------------------------
(* enum Value *)

Null == [type |-> "Null"]

Bool(b) == [type |-> "Bool", v |-> b]

Number(n) == [type |-> "Number", v |-> n]

String(s) == [type |-> "String", v |-> s]

Array(a) == [type |-> "Array", v |-> a]

Object(m) == [type |-> "Object", v |-> m]

---------------------------------------------------------------------------
(* parse_null, parse_bool *)

\* a plausible slip: the rest handed back even when it is empty
parse_null_empty_rest(s) ==
    IF starts_with(s, <<"n", "u", "l", "l">>)
    THEN Some(<<<<>>, Some(From(s, 4))>>)
    ELSE None

parse_null(s) ==
    IF starts_with(s, <<"n", "u", "l", "l">>)
    THEN Some(<<<<>>, NonEmpty(From(s, 4))>>)
    ELSE None

\* a plausible slip: "false" split like the four-letter literals
parse_bool_split_4(s) ==
    IF starts_with(s, <<"t", "r", "u", "e">>)
    THEN Some(<<TRUE, NonEmpty(From(s, 4))>>)
    ELSE IF starts_with(s, <<"f", "a", "l", "s", "e">>)
    THEN Some(<<FALSE, NonEmpty(From(s, 4))>>)
    ELSE None

parse_bool(s) ==
    IF starts_with(s, <<"t", "r", "u", "e">>)
    THEN Some(<<TRUE, NonEmpty(From(s, 4))>>)
    ELSE IF starts_with(s, <<"f", "a", "l", "s", "e">>)
    THEN Some(<<FALSE, NonEmpty(From(s, 5))>>)
    ELSE None

---------------------------------------------------------------------------
(* <f64 as FromStr>::from_str on the texts parse_number hands it (signs,  *)
(* digits, '.', 'e', 'E').  An f64 is modelled by the decimal it denotes,  *)
(* <<"fin", m, e>> for m * 10^e with m not divisible by 10 (zero is        *)
(* <<"fin", 0, 0>>, as -0.0 == 0.0) and <<"inf", sign, 0>> for an infinity, *)
(* saturated as the conversion saturates: to an infinity above the largest *)
(* finite magnitude and to zero below the smallest.  Distinct decimals of  *)
(* at most 15 significant digits are distinct f64 values, which covers     *)
(* every text the inputs contain.                                          *)

\* the position after the run of ASCII digits starting at pos
RECURSIVE skip_digits(_, _)
skip_digits(bytes, pos) ==
    IF pos < Len(bytes) /\ bytes[pos + 1] \in Digits
    THEN skip_digits(bytes, pos + 1)
    ELSE pos

DigitVal(c) == Byte(c) - 48

\* the natural number a digit string denotes (0 for the empty string)
RECURSIVE DecimalOf(_)
DecimalOf(ds) ==
    IF ds = <<>> THEN 0 ELSE 10 * DecimalOf(SubSeq(ds, 1, Len(ds) - 1)) + DigitVal(ds[Len(ds)])

RECURSIVE DigitCount(_)
DigitCount(m) == IF m < 10 THEN 1 ELSE 1 + DigitCount(m \div 10)

RECURSIVE Normalize(_, _)
Normalize(m, e) ==
    IF m = 0 THEN <<0, 0>>
    ELSE IF m % 10 = 0 THEN Normalize(m \div 10, e + 1)
    ELSE <<m, e>>

Infinity(neg) == <<"inf", IF neg THEN -1 ELSE 1, 0>>

\* rounding to the f64 range: 10^308 is the last finite decade, 10^-324 the
\* first decade that does not round to zero
F64(neg, m, e) ==
    LET n == Normalize(m, e)
        top == DigitCount(n[1]) + n[2] - 1
    IN  IF n[1] = 0 THEN <<"fin", 0, 0>>
        ELSE IF top > 308 THEN Infinity(neg)
        ELSE IF top < -324 THEN <<"fin", 0, 0>>
        ELSE <<"fin", IF neg THEN -n[1] ELSE n[1], n[2]>>

f64_from_str(t) ==
    LET signed == t # <<>> /\ t[1] \in {"-", "+"}
        p0 == IF signed THEN 1 ELSE 0
        p1 == skip_digits(t, p0)
        dot == get(t, p1) = Some(".")
        p2 == IF dot THEN skip_digits(t, p1 + 1) ELSE p1
        intd == SubSeq(t, p0 + 1, p1)
        fracd == IF dot THEN SubSeq(t, p1 + 2, p2) ELSE <<>>
        hasExp == get(t, p2) \in {Some("e"), Some("E")}
        esigned == hasExp /\ get(t, p2 + 1) \in {Some("-"), Some("+")}
        p3 == IF hasExp THEN (IF esigned THEN p2 + 2 ELSE p2 + 1) ELSE p2
        p4 == IF hasExp THEN skip_digits(t, p3) ELSE p2
        expd == SubSeq(t, p3 + 1, p4)
        ex == IF get(t, p2 + 1) = Some("-") THEN 0 - DecimalOf(expd) ELSE DecimalOf(expd)
    IN  IF \/ Len(intd) + Len(fracd) = 0
           \/ hasExp /\ expd = <<>>
           \/ p4 # Len(t)
        THEN None
        ELSE Some(F64(signed /\ t[1] = "-", DecimalOf(intd \o fracd),
                      (IF hasExp THEN ex ELSE 0) - Len(fracd)))

---------------------------------------------------------------------------
(* parse_number *)

\* lines 225-239: the integer part; None is the early return, Some(pos) the
\* position after it
\* a plausible slip: a leading 0 taken like any other digit
integer_part_leading_zeros(bytes, pos) ==
    IF IsSome(get(bytes, pos)) /\ Unwrap(get(bytes, pos)) \in Digits
    THEN Some(skip_digits(bytes, pos + 1))
    ELSE None

integer_part(bytes, pos) ==
    IF get(bytes, pos) = Some("0")
    THEN IF IsSome(get(bytes, pos + 1)) /\ Unwrap(get(bytes, pos + 1)) \in Digits
         THEN None
         ELSE Some(pos + 1)
    ELSE IF IsSome(get(bytes, pos)) /\ Unwrap(get(bytes, pos)) \in Digits
    THEN Some(skip_digits(bytes, pos + 1))
    ELSE None

\* lines 241-250: the fraction
fraction_part(bytes, pos) ==
    IF get(bytes, pos) = Some(".")
    THEN LET digits_start == pos + 1
             end == skip_digits(bytes, digits_start)
         IN  IF end = digits_start THEN None ELSE Some(end)
    ELSE Some(pos)

\* lines 252-272: the exponent
exponent_part(bytes, pos) ==
    IF get(bytes, pos) \in {Some("e"), Some("E")}
    THEN LET digits_start == IF get(bytes, pos + 1) \in {Some("+"), Some("-")}
                             THEN pos + 2 ELSE pos + 1
             end == skip_digits(bytes, digits_start)
         IN  IF end = digits_start THEN None ELSE Some(end)
    ELSE Some(pos)

parse_number(s) ==
    LET p0 == IF get(s, 0) = Some("-") THEN 1 ELSE 0
        p1 == integer_part(s, p0)
        p2 == IF IsSome(p1) THEN fraction_part(s, Unwrap(p1)) ELSE None
        p3 == IF IsSome(p2) THEN exponent_part(s, Unwrap(p2)) ELSE None
    IN  IF ~IsSome(p3) THEN None
        ELSE LET pos == Unwrap(p3)
                 n == IF s # <<>> /\ pos > 0 THEN f64_from_str(Upto(s, pos)) ELSE None
             IN  IF IsSome(n)
                 THEN Some(<<Unwrap(n), NonEmpty(From(s, pos))>>)
                 ELSE None

---------------------------------------------------------------------------
(* parse_string *)

\* the byte loop of lines 297-333, from position pos with the escaped flag
RECURSIVE string_loop(_, _, _)
string_loop(s, pos, escaped) ==
    IF ~(pos < Len(s)) THEN None
    ELSE IF escaped
    THEN IF s[pos + 1] = "u"
         THEN IF pos + 4 >= Len(s) THEN None ELSE string_loop(s, pos + 4, FALSE)
         ELSE string_loop(s, pos + 1, FALSE)
    ELSE IF s[pos + 1] = "\\" THEN string_loop(s, pos + 1, TRUE)
    ELSE IF s[pos + 1] = "\""
    THEN LET string_slice == SubSeq(s, 2, pos)
             remaining == IF pos + 1 > Len(s) THEN None ELSE NonEmpty(From(s, pos + 1))
         IN  Some(<<string_slice, remaining>>)
    ELSE IF Byte(s[pos + 1]) < 32 THEN None
    ELSE string_loop(s, pos + 1, FALSE)

parse_string(s) ==
    IF ~starts_with(s, <<"\"">>) THEN None ELSE string_loop(s, 1, FALSE)

---------------------------------------------------------------------------
(* parse, parse_array, parse_object *)

\* a plausible slip: an occupied key keeps its first value
insert_keeps_first(map, key, value) ==
    [k \in DOMAIN map \cup {key} |-> IF k \in DOMAIN map THEN map[k] ELSE value]

\* HashMap::insert: the map is a function from key spans to values
insert(map, key, value) ==
    [k \in DOMAIN map \cup {key} |-> IF k = key THEN value ELSE map[k]]

\* HashMap::new
EmptyMap == [k \in {} |-> Null]

\* Option<&str> to the text the composite loops go on with:
\* `match next_remaining { Some(r) => r.trim_start(), None => "" }`
rest_of(next_remaining) ==
    IF IsSome(next_remaining) THEN trim_start(Unwrap(next_remaining)) ELSE <<>>

\* a plausible slip: the remainder after the closing bracket handed back as it is
close_untrimmed(result, remaining) ==
    Some(<<result, NonEmpty(From(remaining, 1))>>)

\* lines 86-96 and 132-142: the closing bracket or brace is consumed and the
\* remainder trimmed at its start
close(result, remaining) ==
    Some(<<result, NonEmpty(trim_start(From(remaining, 1)))>>)

RECURSIVE parse(_), dispatch(_), array_loop(_, _), object_loop(_, _)

\* the loop of parse_array, lines 85-117, entered with `remaining` and `elements`
array_loop(remaining, elements) ==
    IF starts_with(remaining, <<"]">>) THEN close(elements, remaining)
    ELSE LET r == parse(remaining)
         IN  IF ~(IsSome(r) /\ IsSome(Unwrap(r)[1])) THEN None
             ELSE LET element == Unwrap(Unwrap(r)[1])
                      next == rest_of(Unwrap(r)[2])
                  IN  IF starts_with(next, <<",">>)
                      THEN array_loop(trim_start(From(next, 1)), Append(elements, element))
                      ELSE IF starts_with(next, <<"]">>)
                      THEN array_loop(next, Append(elements, element))
                      ELSE None

parse_array(s) ==
    LET remaining == trim_start(s)
    IN  IF ~starts_with(remaining, <<"[">>) THEN None
        ELSE array_loop(trim_start(From(remaining, 1)), <<>>)

\* lines 160-178: the member's value and what follows it
object_value(remaining, map, key) ==
    LET r == parse(remaining)
    IN  IF ~(IsSome(r) /\ IsSome(Unwrap(r)[1])) THEN None
        ELSE LET value == Unwrap(Unwrap(r)[1])
                 next == rest_of(Unwrap(r)[2])
             IN  IF starts_with(next, <<",">>)
                 THEN object_loop(trim_start(From(next, 1)), insert(map, key, value))
                 ELSE IF starts_with(next, <<"}">>)
                 THEN object_loop(next, insert(map, key, value))
                 ELSE None

\* the loop of parse_object, lines 131-179, entered with `remaining` and `map`
object_loop(remaining, map) ==
    IF starts_with(remaining, <<"}">>) THEN close(map, remaining)
    ELSE LET k == parse_string(remaining)
         IN  IF ~IsSome(k) THEN None
             ELSE IF ~IsSome(Unwrap(k)[2]) THEN None
             ELSE LET key == Unwrap(k)[1]
                      after == trim_start(Unwrap(Unwrap(k)[2]))
                  IN  IF ~starts_with(after, <<":">>) THEN None
                      ELSE object_value(trim_start(From(after, 1)), map, key)

parse_object(s) ==
    LET remaining == trim_start(s)
    IN  IF ~starts_with(remaining, <<"{">>) THEN None
        ELSE object_loop(trim_start(From(remaining, 1)), EmptyMap)

\* the first component of a recognizer's match
Matched(r) == Unwrap(r)[1]

\* the dispatcher's return for a recognizer's match r:
\* Some((Some(value), remaining))
wrap(value, r) == Some(<<Some(value), Unwrap(r)[2]>>)

\* lines 16-43, on the trimmed text
dispatch(s) ==
    IF s = <<>> THEN Some(<<None, None>>)
    ELSE IF IsSome(parse_null(s)) THEN wrap(Null, parse_null(s))
    ELSE IF IsSome(parse_bool(s)) THEN wrap(Bool(Matched(parse_bool(s))), parse_bool(s))
    ELSE IF IsSome(parse_number(s)) THEN wrap(Number(Matched(parse_number(s))), parse_number(s))
    ELSE IF IsSome(parse_string(s)) THEN wrap(String(Matched(parse_string(s))), parse_string(s))
    ELSE LET a == parse_array(s)
         IN  IF IsSome(a) THEN wrap(Array(Matched(a)), a)
             ELSE LET o == parse_object(s)
                  IN  IF IsSome(o) THEN wrap(Object(Matched(o)), o)
                      ELSE None

\* a plausible slip: the dispatcher without line 14's trim
parse_without_trim(source) == dispatch(source)

parse(source) == dispatch(trim(source))

\* the parts of a dispatcher result Some((value, remaining))
ValueOf(r) == Unwrap(r)[1]

RemainderOf(r) == Unwrap(r)[2]

---------------------------------------------------------------------------
(* The calls.  A call takes the input text in src and leaves the result in *)
(* out; pc then names the function that returned.                          *)

CallParse ==
    /\ pc = "call"
    /\ out' = parse(src)
    /\ pc' = "parse"
    /\ UNCHANGED <<gen, src, vals>>

CallParseNumber ==
    /\ pc = "call"
    /\ out' = parse_number(src)
    /\ pc' = "parse_number"
    /\ UNCHANGED <<gen, src, vals>>

CallParseString ==
    /\ pc = "call"
    /\ out' = parse_string(src)
    /\ pc' = "parse_string"
    /\ UNCHANGED <<gen, src, vals>>

CallParseObject ==
    /\ pc = "call"
    /\ out' = parse_object(src)
    /\ pc' = "parse_object"
    /\ UNCHANGED <<gen, src, vals>>

\* the texts made of at most n pieces of P
RECURSIVE Texts(_, _)
Texts(P, n) ==
    IF n = 0 THEN {<<>>}
    ELSE LET T == Texts(P, n - 1) IN T \cup {t \o p : t \in T, p \in P}

\* the state before a call on text s built from parameters g
Start(g, s) ==
    /\ gen = g
    /\ src = s
    /\ out = None
    /\ vals = <<>>
    /\ pc = "call"

---------------------------------------------------------------------------
(* Notions the properties are stated with, defined without the parser.     *)

IsWhiteSpace(s) == \A i \in 1..Len(s) : s[i] \in WhiteSpace

\* s without its leading and trailing whitespace
Stripped(s) ==
    IF IsWhiteSpace(s) THEN <<>>
    ELSE LET first == CHOOSE i \in 1..Len(s) :
                          s[i] \notin WhiteSpace /\ \A j \in 1..(i - 1) : s[j] \in WhiteSpace
             last == CHOOSE i \in 1..Len(s) :
                          s[i] \notin WhiteSpace /\ \A j \in (i + 1)..Len(s) : s[j] \in WhiteSpace
         IN  SubSeq(s, first, last)

\* s without its trailing whitespace
StrippedEnd(s) ==
    IF IsWhiteSpace(s) THEN <<>>
    ELSE LET last == CHOOSE i \in 1..Len(s) :
                          s[i] \notin WhiteSpace /\ \A j \in (i + 1)..Len(s) : s[j] \in WhiteSpace
         IN  SubSeq(s, 1, last)

IsPrefix(p, s) == Len(p) <= Len(s) /\ \A i \in 1..Len(p) : s[i] = p[i]

IsSuffix(t, s) == Len(t) <= Len(s) /\ \A i \in 1..Len(t) : s[Len(s) - Len(t) + i] = t[i]

\* what is left of s after its first n characters
After(s, n) == [i \in 1..(Len(s) - n) |-> s[n + i]]

NullText == <<"n", "u", "l", "l">>

TrueText == <<"t", "r", "u", "e">>

FalseText == <<"f", "a", "l", "s", "e">>

---------------------------------------------------------------------------
(* Raw text: parse on every text of at most MaxTextPieces pieces.          *)

MaxTextPieces == 4

TextPieces ==
    {NullText, TrueText, FalseText, <<" ">>, <<"\n">>, <<"i">>, <<"1">>,
     <<"\"">>, <<"[">>, <<"]">>, <<",">>}

InitText == \E s \in Texts(TextPieces, MaxTextPieces) : Start(<<>>, s)

NextText == CallParse

SpecText == InitText /\ [][NextText]_vars

\* C6: when the whitespace-trimmed input begins with null, true or false,
\* parse returns Null, Bool(true) or Bool(false), and the remainder is the
\* trimmed text after the literal, unchanged, whatever follows it (none if
\* nothing follows).
C6_LiteralPrefix ==
    pc = "parse" =>
        LET t == Stripped(src)
            rest(n) == IF Len(t) = n THEN None ELSE Some(After(t, n))
        IN  /\ IsPrefix(NullText, t) => out = Some(<<Some(Null), rest(4)>>)
            /\ IsPrefix(TrueText, t) => out = Some(<<Some(Bool(TRUE)), rest(4)>>)
            /\ IsPrefix(FalseText, t) => out = Some(<<Some(Bool(FALSE)), rest(5)>>)

\* a literal directly followed by a letter has matched and left the letter
C6_Witness ==
    /\ pc = "parse"
    /\ \E lit \in {NullText, TrueText, FalseText} :
           /\ IsPrefix(lit \o <<"i">>, Stripped(src))
           /\ IsSome(out) /\ IsSome(RemainderOf(out))
           /\ Unwrap(RemainderOf(out))[1] = "i"
    /\ src[1] \in WhiteSpace

\* C8: parse succeeds with no value exactly on the inputs that are empty or
\* all whitespace, and then with no remainder.
C8_NoValue ==
    pc = "parse" =>
        /\ (IsSome(out) /\ ValueOf(out) = None) <=> IsWhiteSpace(src)
        /\ IsWhiteSpace(src) => out = Some(<<None, None>>)

\* a non-empty all-whitespace input gave (None, None)
C8_Witness ==
    /\ pc = "parse"
    /\ Len(src) >= 2
    /\ IsWhiteSpace(src)
    /\ out = Some(<<None, None>>)


---------------------------------------------------------------------------
(* Numbers: parse_number and parse on every text of at most MaxNumberLen   *)
(* characters of NumberChars.                                              *)

MaxNumberLen == 5

NumberChars == {<<"-">>, <<"0">>, <<"1">>, <<".">>, <<"e">>, <<"E">>, <<"+">>}

AllDigits(s) == \A i \in 1..Len(s) : s[i] \in Digits

\* the integer part: a single 0, or a nonzero digit followed by digits
IsIntegerText(s) ==
    /\ s # <<>>
    /\ AllDigits(s)
    /\ s[1] = "0" => Len(s) = 1

\* empty, or '.' and at least one digit
IsFractionText(s) == s = <<>> \/ (Len(s) >= 2 /\ s[1] = "." /\ AllDigits(After(s, 1)))

\* empty, or e/E, an optional sign and at least one digit
IsExponentText(s) ==
    \/ s = <<>>
    \/ /\ Len(s) >= 2
       /\ s[1] \in {"e", "E"}
       /\ \/ AllDigits(After(s, 1))
          \/ Len(s) >= 3 /\ s[2] \in {"+", "-"} /\ AllDigits(After(s, 2))

Slice(s, a, b) == [i \in 1..(b - a) |-> s[a + i]]

\* the grammar of section 4.4: -? int frac? exp?
IsNumberText(s) ==
    \E a \in 0..1, b \in 0..Len(s), c \in 0..Len(s) :
        /\ a <= b /\ b <= c
        /\ a = 1 => (Len(s) >= 1 /\ s[1] = "-")
        /\ IsIntegerText(Slice(s, a, b))
        /\ IsFractionText(Slice(s, b, c))
        /\ IsExponentText(Slice(s, c, Len(s)))

IsSignedIntegerText(s) ==
    \E a \in 0..1 : /\ a = 1 => (Len(s) >= 1 /\ s[1] = "-")
                    /\ IsIntegerText(Slice(s, a, Len(s)))

IsMantissaText(s) ==
    \E b \in 0..Len(s) : IsSignedIntegerText(Slice(s, 0, b)) /\ IsFractionText(Slice(s, b, Len(s)))

At(s, i) == IF i \in 1..Len(s) THEN s[i] ELSE "end"

\* the length of the longest prefix of s that is a number of the grammar
\* (0 if none is)
LongestNumber(s) ==
    LET ks == {0} \cup {k \in 1..Len(s) : IsNumberText(Slice(s, 0, k))}
    IN  CHOOSE k \in ks : \A j \in ks : j <= k

\* the same for the number without its exponent
LongestMantissa(s) ==
    LET ks == {0} \cup {k \in 1..Len(s) : IsMantissaText(Slice(s, 0, k))}
    IN  CHOOSE k \in ks : \A j \in ks : j <= k

\* the condition under which parse_number is to match
NumberMatches(s) ==
    \E k \in 1..Len(s) :
        \* the integer part ends at k: no digit follows it
        /\ IsSignedIntegerText(Slice(s, 0, k))
        /\ At(s, k + 1) \notin Digits
        \* a '.' directly after it is followed by a digit
        /\ At(s, k + 1) = "." => At(s, k + 2) \in Digits
        \* an e/E directly after that is followed by an optional sign and a digit
        /\ LET f == LongestMantissa(s)
           IN  At(s, f + 1) \in {"e", "E"} =>
                   \/ At(s, f + 2) \in Digits
                   \/ At(s, f + 2) \in {"+", "-"} /\ At(s, f + 3) \in Digits

Txt123 == <<"1", "2", "3">>

TxtNeg0p123 == <<"-", "0", ".", "1", "2", "3">>

Txt1em1 == <<"1", "e", "-", "1">>

TxtNeg1p1e1 == <<"-", "1", ".", "1", "e", "1">>

\* the inputs section 8 and tests::parse_numbers name
NumberExamples == {<<"0", "1">>, <<".", "5">>, Txt123, TxtNeg0p123, Txt1em1, TxtNeg1p1e1}

InitNumber == \E s \in Texts(NumberChars, MaxNumberLen) \cup NumberExamples : Start(<<>>, s)

NextNumber == CallParseNumber \/ CallParse

SpecNumber == InitNumber /\ [][NextNumber]_vars

\* C5: parse_number matches exactly the inputs that start as the grammar
\* of section 4.4 says; on a match it consumes the longest prefix that is a number
\* of the grammar and the remainder is the rest of the input (none if
\* empty).  parse fails on 01 and .5 and accepts 123, -0.123, 1e-1 and
\* -1.1e1 with no remainder.
C5_NumberGrammar ==
    /\ pc = "parse_number" =>
           /\ IsSome(out) <=> NumberMatches(src)
           /\ IsSome(out) =>
                  LET k == LongestNumber(src)
                  IN  /\ k >= 1
                      /\ out[1][2] = (IF k = Len(src) THEN None ELSE Some(After(src, k)))
    /\ pc = "parse" =>
           /\ src \in {<<"0", "1">>, <<".", "5">>} => out = None
           /\ src = Txt123 => out = Some(<<Some(Number(<<"fin", 123, 0>>)), None>>)
           /\ src = TxtNeg0p123 => out = Some(<<Some(Number(<<"fin", -123, -3>>)), None>>)
           /\ src = Txt1em1 => out = Some(<<Some(Number(<<"fin", 1, -1>>)), None>>)
           /\ src = TxtNeg1p1e1 => out = Some(<<Some(Number(<<"fin", -11, 0>>)), None>>)

\* a number with a signed exponent matched and left a remainder
C5_Witness ==
    /\ pc = "parse_number"
    /\ IsSome(out)
    /\ IsSome(out[1][2])
    /\ LET k == Len(src) - Len(Unwrap(out[1][2]))
       IN  \E i \in 1..(k - 2) : src[i] \in {"e", "E"} /\ src[i + 1] \in {"+", "-"}

---------------------------------------------------------------------------
(* Strings: parse_string on an opening quote followed by at most           *)
(* MaxStringLen characters of StringChars.                                 *)

MaxStringLen == 6

StringChars == {<<"\"">>, <<"\\">>, <<"u">>, <<"0">>, <<"z">>, <<"\n">>}

InitString == \E body \in Texts(StringChars, MaxStringLen) : Start(<<>>, <<"\"">> \o body)

NextString == CallParseString

SpecString == InitString /\ [][NextString]_vars

\* the text between the opening quote and the quote that closed the string,
\* for a match r on s
ContentOf(s, r) ==
    LET left == IF r[1][2] = None THEN 0 ELSE Len(Unwrap(r[1][2]))
    IN  Slice(s, 1, Len(s) - left - 1)

IsControl(c) == Byte(c) < 32

HexDigits == Digits \cup {"a", "b", "c", "d", "e", "f", "A", "B", "C", "D", "E", "F"}

\* the positions of the backslashes that start an escape in content c, read
\* from position i on as JSON reads it: \u takes four more characters, any
\* other escape one
RECURSIVE EscapeStarts(_, _)
EscapeStarts(c, i) ==
    IF i > Len(c) THEN {}
    ELSE IF c[i] # "\\" THEN EscapeStarts(c, i + 1)
    ELSE IF At(c, i + 1) = "u" THEN {i} \cup EscapeStarts(c, i + 6)
    ELSE {i} \cup EscapeStarts(c, i + 2)

\* C3: parse_string matches no string with a raw control character (a byte
\* below 0x20) anywhere between the opening quote and the closing quote.
C3_NoControlCharacter ==
    (pc = "parse_string" /\ IsSome(out)) =>
        \A i \in 1..Len(ContentOf(src, out)) : ~IsControl(ContentOf(src, out)[i])

\* C4: in every string parse_string accepts, each \u escape is followed,
\* inside the string, by four characters that are all hex digits.
C4_UnicodeEscape ==
    (pc = "parse_string" /\ IsSome(out)) =>
        LET c == ContentOf(src, out)
        IN  \A i \in EscapeStarts(c, 1) :
                At(c, i + 1) = "u" =>
                    /\ i + 5 <= Len(c)
                    /\ \A j \in (i + 2)..(i + 5) : c[j] \in HexDigits

---------------------------------------------------------------------------
(* Composites: parse and parse_object on the array or object text written  *)
(* from a list of at most MaxMembers members, with or without whitespace   *)
(* around the punctuation and with or without a comma before the closing   *)
(* bracket or brace.                                                       *)

MaxMembers == 3

MemberKeys == {<<"a">>, <<"b">>}

MemberTexts == {<<"1">>, <<"2">>, NullText, <<"[", "2", "]">>}

\* the value each member text denotes
MemberValue(t) ==
    CASE t = <<"1">> -> Number(<<"fin", 1, 0>>)
      [] t = <<"2">> -> Number(<<"fin", 2, 0>>)
      [] t = NullText -> Null
      [] t = <<"[", "2", "]">> -> Array(<<Number(<<"fin", 2, 0>>)>>)

Members == [key : MemberKeys, text : MemberTexts]

MemberLists == UNION {[1..n -> Members] : n \in 0..MaxMembers}

Quoted(k) == <<"\"">> \o k \o <<"\"">>

\* members i..Len(ms), comma-separated, each padded with pad
RECURSIVE WriteMembers(_, _, _, _)
WriteMembers(kind, ms, i, pad) ==
    IF i > Len(ms) THEN <<>>
    ELSE LET m == IF kind = "object"
                  THEN Quoted(ms[i].key) \o pad \o <<":">> \o pad \o ms[i].text
                  ELSE ms[i].text
         IN  pad \o m \o pad
                 \o (IF i < Len(ms) THEN <<",">> ELSE <<>>)
                 \o WriteMembers(kind, ms, i + 1, pad)

Write(g) ==
    (IF g.kind = "object" THEN <<"{">> ELSE <<"[">>)
        \o WriteMembers(g.kind, g.members, 1, g.pad)
        \o (IF g.trailing THEN <<",">> \o g.pad ELSE <<>>)
        \o (IF g.kind = "object" THEN <<"}">> ELSE <<"]">>)

InitMembers ==
    \E kind \in {"array", "object"}, ms \in MemberLists,
       pad \in {<<>>, <<" ">>}, trailing \in BOOLEAN :
        LET g == [kind |-> kind, members |-> ms, pad |-> pad, trailing |-> trailing]
        IN  Start(g, Write(g))

NextMembers == CallParse \/ CallParseObject

SpecMembers == InitMembers /\ [][NextMembers]_vars

\* C1: an array [v1,...,vn,] or object {k1:v1,...,kn:vn,} with n >= 1 and a
\* comma before the closing bracket or brace makes parse fail.
C1_TrailingComma ==
    (pc = "parse" /\ gen.trailing /\ Len(gen.members) >= 1) => out = None

\* the mapping the members denote when later duplicates overwrite earlier ones
LastWins(ms) ==
    [k \in {ms[i].key : i \in 1..Len(ms)} |->
        LET last == CHOOSE i \in 1..Len(ms) :
                        ms[i].key = k /\ \A j \in (i + 1)..Len(ms) : ms[j].key # k
        IN  MemberValue(ms[last].text)]

\* the mapping of a result of parse or of parse_object
MapOf(callee, r) == IF callee = "parse" THEN Unwrap(r[1][1]).v ELSE r[1][1]

\* C7: the mapping of an accepted object text has exactly one entry per
\* distinct key, and each key maps to the value of its last occurrence.
C7_LastWriteWins ==
    (pc \in {"parse", "parse_object"} /\ gen.kind = "object" /\ IsSome(out)) =>
        /\ pc = "parse" => (IsSome(out[1][1]) /\ Unwrap(out[1][1]).type = "Object")
        /\ MapOf(pc, out) = LastWins(gen.members)

\* an object with a key written twice, with different values, was accepted
C7_Witness ==
    /\ pc = "parse_object"
    /\ gen.kind = "object"
    /\ ~gen.trailing
    /\ IsSome(out)
    /\ \E i, j \in 1..Len(gen.members) :
           /\ i < j
           /\ gen.members[i].key = gen.members[j].key
           /\ gen.members[i].text # gen.members[j].text
    /\ Cardinality(DOMAIN out[1][1]) < Len(gen.members)

---------------------------------------------------------------------------
(* One value in context: parse on w1 t w2 x w3, where t is the text of a   *)
(* value, w1, w2 and w3 are whitespace of at most MaxWs characters and x is *)
(* empty or text that begins and ends with a non-whitespace character and  *)
(* does not continue the token t.                                          *)

MaxWs == 2

WsStrings == Texts({<<" ">>, <<"\n">>}, MaxWs)

ScalarTexts ==
    {NullText, TrueText, FalseText, <<"0">>, <<"1", "2">>, <<"-", "1", ".", "5", "e", "1">>,
     <<"\"", "a", "\"">>, <<"\"", "\"">>}

CompositeTexts ==
    {<<"[", "]">>, <<"[", "1", " ", "]">>, <<"{", "}">>, <<"{", "\"", "a", "\"", ":", "1", "}">>}

\* the value each of these texts denotes
ExpectedValue(t) ==
    CASE t = NullText -> Null
      [] t = TrueText -> Bool(TRUE)
      [] t = FalseText -> Bool(FALSE)
      [] t = <<"0">> -> Number(<<"fin", 0, 0>>)
      [] t = <<"1">> -> Number(<<"fin", 1, 0>>)
      [] t = <<"1", "2">> -> Number(<<"fin", 12, 0>>)
      [] t = <<"-", "1", ".", "5", "e", "1">> -> Number(<<"fin", -15, 0>>)
      [] t = <<"\"", "a", "\"">> -> String(<<"a">>)
      [] t = <<"\"", "\"">> -> String(<<>>)
      [] t = <<"[", "]">> -> Array(<<>>)
      [] t = <<"[", "1", " ", "]">> -> Array(<<Number(<<"fin", 1, 0>>)>>)
      [] t = <<"[", "1", "]">> -> Array(<<Number(<<"fin", 1, 0>>)>>)
      [] t = <<"{", "}">> -> Object(EmptyMap)
      [] t = <<"{", "\"", "a", "\"", ":", "1", "}">> ->
             Object([k \in {<<"a">>} |-> Number(<<"fin", 1, 0>>)])

Followers == {<<>>, <<"x">>, <<",", "1">>, <<"]", " ", "n">>}

InitScalar ==
    \E t \in ScalarTexts \cup CompositeTexts, w1 \in WsStrings, w2 \in WsStrings,
       x \in Followers, w3 \in WsStrings :
        LET g == [t |-> t, w1 |-> w1, w2 |-> w2, x |-> x, w3 |-> w3]
        IN  Start(g, w1 \o t \o w2 \o x \o w3)

NextScalar == CallParse

SpecScalar == InitScalar /\ [][NextScalar]_vars

---------------------------------------------------------------------------
(* Nesting: parse on every text of at most MaxNestLen brackets and commas. *)
(* The source has no depth counter; DepthLimit stands for the configured   *)
(* maximum the specification speaks of.                                    *)

MaxNestLen == 6

DepthLimit == 2

InitNest == \E s \in Texts({<<"[">>, <<"]">>, <<",">>}, MaxNestLen) : Start(<<>>, s)

NextNest == CallParse

SpecNest == InitNest /\ [][NextNest]_vars

\* the text of n opening and n closing brackets
Nested(n) == [i \in 1..(2 * n) |-> IF i <= n THEN "[" ELSE "]"]

\* C9: an array nested n deep parses for every n up to the maximum and
\* fails for every n beyond it.
C9_DepthBounded ==
    pc = "parse" =>
        \A n \in 1..MaxNestLen :
            src = Nested(n) => (IsSome(out) <=> n <= DepthLimit)

---------------------------------------------------------------------------
(* A stream of values: a caller parses a text, then the remainder it got   *)
(* back, and so on until no remainder is left or a call fails.  The text   *)
(* is a list of at most MaxStream tokens separated by whitespace, with or  *)
(* without whitespace at its end.                                          *)

MaxStream == 3

\* "x" is no JSON value
StreamTexts ==
    {NullText, FalseText, <<"1">>, <<"\"", "a", "\"">>, <<"[", "1", "]">>, <<"x">>}

StreamLists == UNION {[1..n -> StreamTexts] : n \in 0..MaxStream}

RECURSIVE Join(_, _, _)
Join(ts, i, sep) ==
    IF i > Len(ts) THEN <<>>
    ELSE ts[i] \o (IF i < Len(ts) THEN sep ELSE <<>>) \o Join(ts, i + 1, sep)

InitStream ==
    \E ts \in StreamLists, sep \in {<<" ">>, <<"\n", " ">>}, trail \in {<<>>, <<" ">>} :
        Start([tokens |-> ts, sep |-> sep, trail |-> trail], Join(ts, 1, sep) \o trail)

\* the caller goes on with the remainder
Feed ==
    /\ pc = "parse"
    /\ IsSome(out) /\ IsSome(ValueOf(out)) /\ IsSome(RemainderOf(out))
    /\ vals' = Append(vals, Unwrap(ValueOf(out)))
    /\ src' = Unwrap(RemainderOf(out))
    /\ pc' = "call"
    /\ UNCHANGED <<gen, out>>

\* nothing remains, or the call failed or found no value: the caller stops
Stop ==
    /\ pc = "parse"
    /\ ~(IsSome(out) /\ IsSome(ValueOf(out)) /\ IsSome(RemainderOf(out)))
    /\ vals' = IF IsSome(out) /\ IsSome(ValueOf(out))
               THEN Append(vals, Unwrap(ValueOf(out)))
               ELSE vals
    /\ pc' = "end"
    /\ UNCHANGED <<gen, src, out>>

NextStream == CallParse \/ Feed \/ Stop

SpecStream == InitStream /\ [][NextStream]_vars

\* a call of parse returned a value and a remainder
Returned == pc = "parse" /\ IsSome(out) /\ IsSome(ValueOf(out)) /\ IsSome(RemainderOf(out))

\* the tokens before the first that is no value
RECURSIVE ValidPrefix(_, _)
ValidPrefix(ts, i) ==
    IF i > Len(ts) \/ ts[i] = <<"x">> THEN <<>>
    ELSE <<ExpectedValue(ts[i])>> \o ValidPrefix(ts, i + 1)

\* C10 as stated: a remainder is a non-empty suffix of the input, strictly
\* shorter than the input.
C10_SuffixOfInput ==
    Returned =>
        LET r == Unwrap(RemainderOf(out))
        IN  r # <<>> /\ Len(r) < Len(src) /\ IsSuffix(r, src)

\* C10 as amended: a remainder is non-empty, strictly shorter than the
\* input, and a suffix of the input without its trailing whitespace.  So
\* the caller makes at most as many calls as the text is long: the values
\* collected and the text still to parse never exceed the text it started
\* with.  Its run ends with no remainder or with a failure, and it has then
\* collected the values of the text in source order.
C10_Progress ==
    /\ Returned =>
           LET r == Unwrap(RemainderOf(out))
           IN  r # <<>> /\ Len(r) < Len(src) /\ IsSuffix(r, StrippedEnd(src))
    /\ pc # "end" =>
           Len(vals) + Len(src) <= Len(Join(gen.tokens, 1, gen.sep) \o gen.trail)
    /\ pc = "end" =>
           /\ out = None \/ RemainderOf(out) = None
           /\ vals = ValidPrefix(gen.tokens, 1)
           /\ out = None <=> \E i \in 1..Len(gen.tokens) : gen.tokens[i] = <<"x">>

\* the caller has been handed a remainder twice and stopped with three values
C10_Witness ==
    /\ pc = "end"
    /\ Len(vals) = 3
    /\ gen.trail # <<>>

====
